---- MODULE Spec2Model ----
(***************************************************************************)
(* Model of deep_learning/run_gridsearch.py: main() sweeps the synthetic   *)
(* ratio under the input channels "R" and then "RG", building a CustomUNet *)
(* and calling run_train.main at every point, and prints one line per      *)
(* point.                                                                  *)
(*                                                                         *)
(* Units: synthetic ratios are in hundredths (25 is 0.25), scale_crop in   *)
(* tenths (40 is 4.0), learning_rate in thousandths (1 is 0.001).  Python  *)
(* indices are 0-based: At(s, i) reads s[i].  A string used as a sequence  *)
(* of channels is a sequence of one-letter strings.                        *)
(***************************************************************************)
EXTENDS Integers, Sequences, FiniteSets, TLC

VARIABLES pc, loop, idx, args, model, history, best_epoch, err,
          out, lastSuffix, ctors, runs, lastCall

vars == <<pc, loop, idx, args, model, history, best_epoch, err,
          out, lastSuffix, ctors, runs, lastCall>>

(* ---------------- bounds of the external collaborators ---------------- *)

\* longest history the trainer returns in the model
MaxEpochs == 2

\* per-epoch metric values range over 0..MaxVal
MaxVal == 1

(* ---------------- module-level parameters ---------------- *)

n_epochs == 10

synth_ratios == <<0, 25, 50, 75, 100>>

(* ---------------- values ---------------- *)

None == "None"

\* None where a ratio in hundredths is expected
NoRatio == -1

\* messages a RuntimeError can carry
Messages == {"CUDA out of memory"}

NoHistory == [n \in {} |-> <<>>]

NoSuffix == [form |-> "none", msg |-> None, scale_crop |-> 0,
             loss |-> 0, lossC |-> 0, dice |-> 0, diC |-> 0]

\* s[i] with Python's 0-based index
At(s, i) == s[i + 1]

\* "%.1f" % x for x given in tenths
Fmt1f(t) == ToString(t \div 10) \o "." \o ToString(t % 10)

LossCKey(a) == "val_lossC" \o Fmt1f(a.scale_crop)

DiCKey(a) == "val_diC" \o Fmt1f(a.scale_crop)

(* ---------------- the configuration ---------------- *)

Arguments ==
    [batch_size |-> 32,
     data_aug |-> FALSE,
     data_dir |-> "/data/talabot/dataset_cv-annotated/",
     epochs |-> n_epochs,
     eval_test |-> FALSE,
     input_channels |-> <<"R">>,
     learning_rate |-> 1,
     model_dir |-> None,
     no_gpu |-> FALSE,
     save_fig |-> FALSE,
     scale_crop |-> 40,
     seed |-> 1,
     synthetic_data |-> FALSE,
     synthetic_only |-> FALSE,
     synthetic_ratio |-> NoRatio,
     timeit |-> FALSE,
     use_masks |-> FALSE,
     verbose |-> FALSE]

EnableFlagsNoAug(a) == [a EXCEPT !.synthetic_data = TRUE]

\* args.synthetic_data = True; args.data_aug = True
EnableFlags(a) == [a EXCEPT !.synthetic_data = TRUE, !.data_aug = TRUE]

SetRatioAndSeed(a, r) == [a EXCEPT !.synthetic_ratio = r, !.seed = a.seed + 1]

\* args.synthetic_ratio = synth_ratio
SetRatio(a, r) == [a EXCEPT !.synthetic_ratio = r]

\* args.input_channels = "RG"
SetChannelsRG(a) == [a EXCEPT !.input_channels = <<"R", "G">>]

(* ---------------- the model factory ---------------- *)

\* an instance of CustomUNet; id is the identity of the object: the ordinal
\* of the constructor call that made it
CustomUNet(n_in, u_depth, out1_channels, batchnorm, id) ==
    [id |-> id, in_channels |-> n_in, u_depth |-> u_depth,
     out1_channels |-> out1_channels, batchnorm |-> batchnorm]

\* model = None
NoModel == CustomUNet(0, 0, 0, FALSE, 0)

NewModelShared(a, id) == CustomUNet(Len(a.input_channels), 4, 16, TRUE, 1)

\* CustomUNet(len(args.input_channels), u_depth=4, out1_channels=16, batchnorm=True)
NewModel(a, id) == CustomUNet(Len(a.input_channels), 4, 16, TRUE, id)

(* ---------------- the histories the trainer can return ---------------- *)

\* every metric has one value per epoch; val_dice is arbitrary, the other
\* three sequences are pairwise disjoint and each has distinct values

SeqsOfLen(S, n) == [1..n -> S]

\* a sequence of n epochs with distinct values at distinct epochs, ascending
\* or descending from base
Ramp(base, n, up) == [k \in 1..n |-> base + (IF up THEN k ELSE n + 1 - k)]

Histories(a) ==
    { [key \in {"val_loss", LossCKey(a), "val_dice", DiCKey(a)} |->
          CASE key = "val_dice" -> d
            [] key = "val_loss" -> Ramp(10, Len(d), TRUE)
            [] key = LossCKey(a) -> Ramp(20, Len(d), FALSE)
            [] OTHER -> Ramp(30, Len(d), TRUE)] :
      d \in UNION { SeqsOfLen(0..MaxVal, n) : n \in 0..MaxEpochs } }

(* ---------------- np.argmax ---------------- *)

RECURSIVE ArgMaxScan(_, _, _)
\* scan from position k (1-based) with the best position so far: a later
\* element replaces the best one only when it is strictly greater
ArgMaxScan(s, k, best) ==
    IF k > Len(s) THEN best
    ELSE ArgMaxScan(s, k + 1, IF s[k] > s[best] THEN k ELSE best)

RECURSIVE ArgLastMaxScan(_, _, _)
ArgLastMaxScan(s, k, best) ==
    IF k > Len(s) THEN best
    ELSE ArgLastMaxScan(s, k + 1, IF s[k] >= s[best] THEN k ELSE best)

argmax_last(s) == ArgLastMaxScan(s, 2, 1) - 1

argmax_zero(s) == 0

\* np.argmax of a non-empty sequence, as a 0-based index
argmax(s) == ArgMaxScan(s, 2, 1) - 1

(* ---------------- printing ---------------- *)

Line(kind, arg) == [kind |-> kind, arg |-> arg]

RunHeader == Line("Starting on", n_epochs)

DataAugLine == Line("Data augmentation is enabled.", 0)

HeaderR == Line("Input channels: R", 0)

HeaderRG == Line("Input channels: RG", 0)

\* print("synth_ratio={: <4}".format(synth_ratio), end="")
Prefix(r) == Line("synth_ratio=", r)

MetricLine == Line(" | loss=", 0)

FailureLine == Line(" | RuntimeError", 0)

EndingLine == Line("Ending on", 0)

DurationLine == Line("Script duration", 0)

\* the arguments of the format of the result line
MetricSuffix(h, a, e) ==
    [form |-> "metrics", msg |-> None, scale_crop |-> a.scale_crop,
     loss |-> At(h["val_loss"], e),
     lossC |-> At(h[LossCKey(a)], e),
     dice |-> At(h["val_dice"], e),
     diC |-> At(h[DiCKey(a)], e)]

\* the arguments of the format of the failure line
FailureSuffix(m) ==
    [form |-> "failure", msg |-> m, scale_crop |-> 0,
     loss |-> 0, lossC |-> 0, dice |-> 0, diC |-> 0]

(* ---------------- main() ---------------- *)

\* no invocation of the trainer yet
NoCall == [args |-> Arguments, model |-> NoModel, loop |-> 0, idx |-> 0]

\* before main() runs: no local is bound, nothing is printed;
\* ctors counts the constructor calls, runs the trainer calls of the current
\* sweep point the trainer calls, lastCall is the latest trainer call
Init ==
    /\ pc = "start"
    /\ loop = 0
    /\ idx = 0
    /\ args = Arguments
    /\ model = NoModel
    /\ history = NoHistory
    /\ best_epoch = -1
    /\ err = None
    /\ out = <<>>
    /\ lastSuffix = NoSuffix
    /\ ctors = 0
    /\ runs = 0
    /\ lastCall = NoCall

\* run header, configuration, the two flags, first section header
Start ==
    /\ pc = "start"
    /\ args' = EnableFlags(Arguments)
    /\ model' = NoModel
    /\ out' = out \o <<RunHeader, DataAugLine, HeaderR>>
    /\ loop' = 1
    /\ idx' = 1
    /\ pc' = "for"
    /\ UNCHANGED <<history, best_epoch, err, lastSuffix, ctors, runs, lastCall>>

\* the head of a for loop with a value left: set the ratio, print the prefix
ForBody ==
    /\ pc = "for"
    /\ idx <= Len(synth_ratios)
    /\ args' = SetRatio(args, synth_ratios[idx])
    /\ out' = Append(out, Prefix(synth_ratios[idx]))
    /\ runs' = 0
    /\ pc' = "build"
    /\ UNCHANGED <<loop, idx, model, history, best_epoch, err, lastSuffix,
                   ctors, lastCall>>

\* model = CustomUNet(...): returns, raises RuntimeError or raises another error
Build ==
    /\ pc = "build"
    /\ ctors' = ctors + 1
    /\ \/ /\ model' = NewModel(args, ctors + 1)
          /\ pc' = "train"
          /\ UNCHANGED err
       \/ /\ \E m \in Messages : err' = m
          /\ pc' = "except"
          /\ UNCHANGED model
       \/ /\ pc' = "fatal"
          /\ UNCHANGED <<model, err>>
    /\ UNCHANGED <<loop, idx, args, history, best_epoch, out, lastSuffix,
                   runs, lastCall>>

\* history = run_train.main(args, model=model): returns a history, raises
\* RuntimeError or raises another error
Train ==
    /\ pc = "train"
    /\ runs' = runs + 1
    /\ lastCall' = [args |-> args, model |-> model, loop |-> loop, idx |-> idx]
    /\ \/ /\ \E h \in Histories(args) : history' = h
          /\ pc' = "reduce"
          /\ UNCHANGED err
       \/ /\ \E m \in Messages : err' = m
          /\ pc' = "except"
          /\ UNCHANGED history
       \/ /\ pc' = "fatal"
          /\ UNCHANGED <<history, err>>
    /\ UNCHANGED <<loop, idx, args, model, best_epoch, out, lastSuffix, ctors>>

\* best_epoch = np.argmax(history["val_dice"]); print(" | loss=...")
\* np.argmax of an empty sequence raises ValueError, which is not caught
Reduce ==
    /\ pc = "reduce"
    /\ IF Len(history["val_dice"]) = 0
       THEN /\ pc' = "fatal"
            /\ UNCHANGED <<idx, best_epoch, out, lastSuffix>>
       ELSE /\ best_epoch' = argmax(history["val_dice"])
            /\ lastSuffix' = MetricSuffix(history, args, best_epoch')
            /\ out' = Append(out, MetricLine)
            /\ idx' = idx + 1
            /\ pc' = "for"
    /\ UNCHANGED <<loop, args, model, history, err, ctors, runs, lastCall>>

ExceptSilent ==
    /\ pc = "except"
    /\ err' = None
    /\ idx' = idx + 1
    /\ pc' = "for"
    /\ UNCHANGED <<loop, args, model, history, best_epoch, out, lastSuffix,
                   ctors, runs, lastCall>>

ExceptAbort ==
    /\ pc = "except"
    /\ lastSuffix' = FailureSuffix(err)
    /\ out' = Append(out, FailureLine)
    /\ err' = None
    /\ pc' = "fatal"
    /\ UNCHANGED <<loop, idx, args, model, history, best_epoch, ctors, runs,
                   lastCall>>

\* except RuntimeError as err: print(" | RuntimeError ({})".format(err))
\* the name err is unbound when the handler ends
Except ==
    /\ pc = "except"
    /\ lastSuffix' = FailureSuffix(err)
    /\ out' = Append(out, FailureLine)
    /\ err' = None
    /\ idx' = idx + 1
    /\ pc' = "for"
    /\ UNCHANGED <<loop, args, model, history, best_epoch, ctors, runs,
                   lastCall>>

NextChannelsSilent ==
    /\ pc = "for"
    /\ loop = 1
    /\ idx > Len(synth_ratios)
    /\ args' = SetChannelsRG(args)
    /\ loop' = 2
    /\ idx' = 1
    /\ UNCHANGED <<pc, model, history, best_epoch, err, out, lastSuffix,
                   ctors, runs, lastCall>>

\* the first loop is exhausted: args.input_channels = "RG", second header
NextChannels ==
    /\ pc = "for"
    /\ loop = 1
    /\ idx > Len(synth_ratios)
    /\ args' = SetChannelsRG(args)
    /\ out' = Append(out, HeaderRG)
    /\ loop' = 2
    /\ idx' = 1
    /\ UNCHANGED <<pc, model, history, best_epoch, err, lastSuffix, ctors,
                   runs, lastCall>>

\* the second loop is exhausted: the footer
Finish ==
    /\ pc = "for"
    /\ loop = 2
    /\ idx > Len(synth_ratios)
    /\ out' = out \o <<EndingLine, DurationLine>>
    /\ pc' = "done"
    /\ UNCHANGED <<loop, idx, args, model, history, best_epoch, err,
                   lastSuffix, ctors, runs, lastCall>>

Next ==
    \/ Start
    \/ ForBody
    \/ Build
    \/ Train
    \/ Reduce
    \/ Except
    \/ NextChannels
    \/ Finish

Spec == Init /\ [][Next]_vars

TypeOK ==
    /\ pc \in {"start", "for", "build", "train", "reduce", "except", "done", "fatal"}
    /\ loop \in 0..2
    /\ idx \in 0..(Len(synth_ratios) + 1)
    /\ ctors \in 0..(2 * Len(synth_ratios))

(* ---------------- properties ---------------- *)

NRatios == Len(synth_ratios)

\* position of the sweep point (l, i) in the nested order: "R" first
Ord(l, i) == (l - 1) * NRatios + i

\* number of sweep points that have ended (their suffix is printed)
Ended == IF pc = "done" THEN 2 * NRatios ELSE Ord(loop, idx) - 1

ChannelsOf(l) == IF l = 1 THEN <<"R">> ELSE <<"R", "G">>

Last(s) == s[Len(s)]

Suffixes == {MetricLine, FailureLine}

IsPrefix(l) == l.kind = "synth_ratio="

SweptFields == {"input_channels", "synthetic_ratio"}

\* C1: whenever a sweep point has ended without a fatal error, the trainer
\* has been invoked exactly once for that point, with that point's channels
\* and ratio (so at the end it has run once per pair, in nested order).
C1_OncePerPoint ==
    (pc \in {"for", "done"} /\ Ended >= 1) =>
        /\ runs = 1
        /\ Ord(lastCall.loop, lastCall.idx) = Ended
        /\ lastCall.args.input_channels = ChannelsOf(lastCall.loop)
        /\ lastCall.args.synthetic_ratio = synth_ratios[lastCall.idx]

\* C2: when the trainer has raised RuntimeError, the handler prints the
\* failure suffix with the error's message and the sweep goes on with the
\* next point; the handler never ends the sweep.
C2_FailureContinues ==
    [][ /\ (pc = "except" /\ runs = 1) =>
              /\ out' = Append(out, FailureLine)
              /\ lastSuffix' = FailureSuffix(err)
              /\ pc' = "for"
              /\ loop' = loop
              /\ idx' = idx + 1
        /\ (pc = "except") => (pc' # "fatal")
        /\ (pc = "for" /\ Ended < 2 * NRatios) => (pc' = "build" \/ loop' = 2)
      ]_vars

C2_Witness ==
    /\ pc = "train"
    /\ lastSuffix.form = "failure"
    /\ lastCall.loop = loop
    /\ lastCall.idx = idx - 1

\* C3: an error that is not the trainer's RuntimeError (raised by the model
\* constructor, or by the reduction of the history) is fatal.
C3_OtherErrorsFatal ==
    [][ /\ (pc = "build" /\ pc' # "train") => (pc' = "fatal")
        /\ (pc = "reduce" /\ pc' # "for") => (pc' = "fatal")
      ]_vars

\* C4: at every trainer invocation all fields but input_channels and
\* synthetic_ratio have their base-configuration value, and so they are the
\* fields that did not change since the previous invocation.
C4_OnlySweptFieldsChange ==
    (pc = "train") =>
        \A f \in (DOMAIN args) \ SweptFields :
            /\ args[f] = EnableFlags(Arguments)[f]
            /\ (lastCall.idx > 0) => (args[f] = lastCall.args[f])

C4_Witness ==
    /\ pc = "train"
    /\ loop = 2
    /\ lastSuffix.form = "failure"
    /\ lastCall.loop = loop
    /\ lastCall.idx = idx - 1
    /\ lastCall.args.synthetic_ratio # args.synthetic_ratio

\* C5: when a result line in the metric form has just been printed, the best
\* epoch is an index where val_dice is maximal and the four printed values
\* are read at this index, each from its own sequence; val_dice = [0, 1]
\* gives index 1 and val_dice = [0, 1, 0] gives index 1.
C5_BestEpochMetrics ==
    (Len(out) > 0 /\ Last(out) = MetricLine) =>
        LET d == history["val_dice"] IN
        /\ best_epoch \in 0..(Len(d) - 1)
        /\ \A j \in 0..(Len(d) - 1) : At(d, j) <= At(d, best_epoch)
        /\ lastSuffix.form = "metrics"
        /\ lastSuffix.loss = At(history["val_loss"], best_epoch)
        /\ lastSuffix.lossC = At(history["val_lossC4.0"], best_epoch)
        /\ lastSuffix.dice = At(d, best_epoch)
        /\ lastSuffix.diC = At(history["val_diC4.0"], best_epoch)
        /\ (d = <<0, 1>>) => (best_epoch = 1)
        /\ (d = <<0, 1, 0>>) => (best_epoch = 1)

C5_Witness ==
    /\ Len(out) > 0
    /\ Last(out) = MetricLine
    /\ history["val_dice"] = <<0, 1>>
    /\ lastSuffix.loss = 12
    /\ lastSuffix.lossC = 21

\* the shape of the whole output of a sweep that ended normally
SectionAt(start, header) ==
    /\ out[start] = header
    /\ \A j \in 1..NRatios :
          /\ out[start + 2 * j - 1] = Prefix(synth_ratios[j])
          /\ out[start + 2 * j] \in Suffixes

CompleteOutput ==
    /\ Len(out) = 2 + 2 * (1 + 2 * NRatios) + 2
    /\ out[1] = RunHeader
    /\ out[2] = DataAugLine
    /\ SectionAt(3, HeaderR)
    /\ SectionAt(4 + 2 * NRatios, HeaderRG)
    /\ out[Len(out) - 1] = EndingLine
    /\ out[Len(out)] = DurationLine

\* the number of steps main() has left at most: it is 0 when main() has
\* ended, normally or by a fatal error
StepsLeft ==
    CASE pc = "start" -> 8 * NRatios + 4
      [] pc \in {"done", "fatal"} -> 0
      [] OTHER ->
           4 * (2 * NRatios - Ended) + (IF loop = 1 THEN 1 ELSE 0)
           + (CASE pc = "for" -> 2
                [] pc = "build" -> 1
                [] pc = "train" -> 0
                [] OTHER -> -1)

\* C6: main() terminates: until it has ended it has a next step, and every
\* step leaves fewer steps.  The run header is the first output; after a
\* normal end the output is the run header, then per channel value one
\* section header and one prefix and suffix per ratio, then the footer once,
\* and the footer is printed by no run that has not ended normally.
C6_OutputOrder ==
    /\ [](StepsLeft > 0 => ENABLED Next)
    /\ [][StepsLeft' < StepsLeft /\ StepsLeft' >= 0]_vars
    /\ [](Len(out) > 0 => out[1] = RunHeader)
    /\ [](pc = "done" => CompleteOutput)
    /\ [](pc # "done" => \A p \in 1..Len(out) : out[p] \notin {EndingLine, DurationLine})

C6_Witness ==
    /\ pc = "done"
    /\ \E p \in 1..Len(out) : out[p] = MetricLine
    /\ \E p \in 1..Len(out) : out[p] = FailureLine

\* C7: at every trainer invocation synthetic_data and data_aug are True,
\* no_gpu, save_fig and eval_test are False, scale_crop is 4.0, seed is 1 and
\* synthetic_ratio is the current ratio; the two flags never change after
\* the start.
C7_FixedFlags ==
    /\ [](pc = "train" =>
            /\ args.synthetic_data = TRUE
            /\ args.data_aug = TRUE
            /\ args.no_gpu = FALSE
            /\ args.save_fig = FALSE
            /\ args.scale_crop = 40
            /\ args.seed = 1
            /\ args.eval_test = FALSE
            /\ args.synthetic_ratio # NoRatio
            /\ args.synthetic_ratio = synth_ratios[idx])
    /\ [][pc # "start" =>
            /\ args'.synthetic_data = args.synthetic_data
            /\ args'.data_aug = args.data_aug]_vars

C7_Witness ==
    /\ pc = "train"
    /\ loop = 2
    /\ idx = NRatios
    /\ args.synthetic_ratio = 100

\* C8: the model passed to the trainer was made by the constructor call of
\* the same sweep point, is another instance than the one of the previous
\* invocation, and has 1 input channel under "R" and 2 under "RG".
C8_FreshModel ==
    (pc = "train") =>
        /\ ctors = Ord(loop, idx)
        /\ model.id = ctors
        /\ (lastCall.idx > 0) => (lastCall.model.id < model.id)
        /\ model.in_channels = Len(args.input_channels)
        /\ model.in_channels = loop

C8_Witness ==
    /\ pc = "train"
    /\ loop = 2
    /\ lastSuffix.form = "failure"
    /\ lastCall.loop = loop
    /\ lastCall.idx = idx - 1

\* C9: the prefix of a point is printed before its model is built and its
\* trainer call; while the point runs and after a fatal error the prefix is
\* the last output; every earlier prefix is followed by one suffix, and
\* every suffix follows a prefix.
C9_PrefixThenSuffix ==
    /\ (pc = "build") => (ctors = Ord(loop, idx) - 1 /\ runs = 0)
    /\ (pc \in {"build", "train", "reduce", "except"}) =>
          (Last(out) = Prefix(synth_ratios[idx]))
    /\ (pc = "fatal") => IsPrefix(Last(out))
    /\ \A p \in 1..Len(out) :
          /\ IsPrefix(out[p]) =>
                IF p = Len(out)
                THEN pc \in {"build", "train", "reduce", "except", "fatal"}
                ELSE out[p + 1] \in Suffixes
          /\ (out[p] \in Suffixes) => (p > 1 /\ IsPrefix(out[p - 1]))

C9_Witness ==
    /\ pc = "fatal"
    /\ \E p \in 1..Len(out) : out[p] = MetricLine
    /\ \E p \in 1..Len(out) : out[p] = FailureLine

\* C10: when a result line in the metric form has just been printed, every
\* epoch before the best epoch has a strictly smaller val_dice: of several
\* epochs with the maximal val_dice the first is chosen.
C10_FirstMaximum ==
    (Len(out) > 0 /\ Last(out) = MetricLine) =>
        \A j \in 0..(best_epoch - 1) :
            At(history["val_dice"], j) < At(history["val_dice"], best_epoch)

C10_Witness ==
    /\ Len(out) > 0
    /\ Last(out) = MetricLine
    /\ history["val_dice"] = <<1, 1>>
    /\ best_epoch = 0
====
